---- MODULE Spec2Model ----
(***************************************************************************)
(* Azafea metrics event classification                                     *)
(* (azafea/event_processors/metrics/events/_base.py).                      *)
(*                                                                         *)
(* The module registries are filled while the event model classes are      *)
(* defined (MetricMeta.__new__), then new_singular_event,                  *)
(* new_aggregate_event and new_sequence_event turn wire records into       *)
(* event objects and add them to the caller's database session.            *)
(*                                                                         *)
(* The controller (chuleisi/controller.py) starts the worker processes and *)
(* waits for them.                                                         *)
(*                                                                         *)
(* setup_logging (azafea/logging.py) installs the two handlers of the root *)
(* logger that send the log records to stdout and stderr.                  *)
(***************************************************************************)
EXTENDS Integers, Sequences, FiniteSets, TLC

\* Number of pending objects a session holds before its owner commits it.
MaxStaged == 1
\* Number of progress events between the start and the stop of a sequence.
MaxProgress == 1
\* Largest number_of_workers of a configuration.
MaxWorkers == 2
\* Number of calls of Controller.start and Controller.main on one controller.
MaxCalls == 2
\* Number of calls of setup_logging in one process.
MaxSetups == 2

VARIABLES
    pc,                      \* "import": model classes are being defined; "run": records are processed
    SINGULAR_EVENT_MODELS,   \* event uuid (string) -> singular model class
    AGGREGATE_EVENT_MODELS,  \* event uuid (string) -> aggregate model class
    SEQUENCE_EVENT_MODELS,   \* event uuid (string) -> sequence model class
    request,                 \* the Request the records of the session belong to
    event_variant,           \* the wire record given to the last new_*_event call
    returned,                \* the object the last new_*_event call returned
    raised,                  \* the exception the last new_*_event call let escape
    dbsession,               \* objects pending in the caller's session, in add() order
    log,                     \* log records emitted since the session was opened
    called,                  \* the name of the last new_*_event function called
    _number_of_workers,      \* Controller._number_of_workers
    _processors,             \* Controller._processors: the Processor objects, in append order
    frame,                   \* the Controller method being run and its position
    calls,                   \* calls of Controller.start and Controller.main made so far
    controller_log,          \* messages the controller logged
    root,                    \* the root logger: its handlers, in order, and its level
    levels,                  \* the level of each logger that was given one, by name
    simplefilter,            \* the action of the warnings filter that was installed, or ""
    setups,                  \* the verbose arguments of the setup_logging calls made so far
    last_record              \* the last record logged and the streams it was written to

metrics == <<pc, SINGULAR_EVENT_MODELS, AGGREGATE_EVENT_MODELS, SEQUENCE_EVENT_MODELS,
             request, event_variant, returned, raised, dbsession, log, called>>

controller == <<_number_of_workers, _processors, frame, calls, controller_log>>

logging == <<root, levels, simplefilter, setups, last_record>>

vars == <<metrics, controller, logging>>

registries == <<SINGULAR_EVENT_MODELS, AGGREGATE_EVENT_MODELS, SEQUENCE_EVENT_MODELS>>

----------------------------------------------------------------------------
(* Python values *)

\* Python's None, where a record-shaped value is expected.
None == [class |-> "NoneType"]

\* __payload_type__ = None
NoPayloadType == "None"

\* No exception.
NoExc == [type |-> "", args |-> <<>>]

\* A raised exception: its class and its args, the message as a sequence of
\* text pieces (the pieces of an f-string).
Exc(type, args) == [type |-> type, args |-> args]

\* str(e): a KeyError shows the repr of its key, other exceptions their message.
Str(e) == IF e.type = "KeyError" THEN <<"'">> \o e.args \o <<"'">> ELSE e.args

\* Whether `except KeyError` catches e.
IsKeyError(e) == e.type = "KeyError"

\* A handler that names ValueError where the code names Exception.
IsException_ValueErrorOnly(e) == e.type = "ValueError"

\* Whether `except Exception` catches e.
IsException(e) == e.type \in {"KeyError", "ValueError", "TypeError", "NotImplementedError"}

\* Passes the fields of the payload alone to the constructor.
Update_FieldsOnly(kwargs, fields) == fields

\* dict.update
Update(kwargs, fields) ==
    [k \in DOMAIN kwargs \cup DOMAIN fields |->
        IF k \in DOMAIN fields THEN fields[k] ELSE kwargs[k]]

\* An integer of Python that holds a uint32, as its two 16-bit halves hi and
\* lo, for hi * 65536 + lo (the integers of the model checker are 32-bit
\* signed): it is negative when hi is.
UInt32(hi, lo) == [hi |-> hi, lo |-> lo]

----------------------------------------------------------------------------
(* GLib.Variant values: the payload is a maybe-variant (type mv) *)

Nothing == [vtype |-> "mv", just |-> FALSE, type |-> "", value |-> 0]
Just(t, v) == [vtype |-> "mv", just |-> TRUE, type |-> t, value |-> v]

\* The array of a sequence's children (type a(xmv)).
Array(children) == [vtype |-> "a(xmv)", children |-> children]

\* GLib.Variant.get_uint32 of a variant of type u: its 4 little-endian bytes
\* as a non-negative integer.
get_uint32(bytes) == UInt32(bytes[4] * 256 + bytes[3], bytes[2] * 256 + bytes[1])

\* The type string as bytes.
TypeBytes(t) == IF t = "u" THEN <<117>> ELSE IF t = "s" THEN <<115>> ELSE <<>>

\* Serialised value: a uint32 is 4 little-endian bytes, a string its bytes and a NUL.
ValueBytes(t, v) == IF t = "u" THEN <<v % 256, (v \div 256) % 256, 0, 0>> ELSE <<v, 0>>

\* maybe_payload.get_data_as_bytes().get_data(): Nothing is empty; Just v is the
\* boxed variant (value, NUL, type string) followed by the maybe's NUL.
get_data(p) ==
    IF p.just THEN ValueBytes(p.type, p.value) \o <<0>> \o TypeBytes(p.type) \o <<0>>
    ELSE <<>>

\* One child of a sequence's array: (relative timestamp, maybe payload).
ChildBytes(c) == <<c.relative_timestamp>> \o get_data(c.payload)

RECURSIVE ArrayData(_)
ArrayData(children) ==
    IF children = <<>> THEN <<>>
    ELSE ChildBytes(Head(children)) \o ArrayData(Tail(children))

RECURSIVE ArrayOffsets(_, _)
ArrayOffsets(children, start) ==
    IF children = <<>> THEN <<>>
    ELSE LET end == start + Len(ChildBytes(Head(children)))
         IN <<end>> \o ArrayOffsets(Tail(children), end)

\* The serialised array of children: the children one after the other, then the
\* table of their end offsets.
get_array_data(children) == ArrayData(children) \o ArrayOffsets(children, 0)

\* variant.get_data_as_bytes(): the serialised bytes, or NULL for empty data when
\* GLib is older than 2.62 (null_for_empty).
get_data_as_bytes(variant, null_for_empty) ==
    LET data == IF variant.vtype = "mv" THEN get_data(variant)
                ELSE get_array_data(variant.children)
    IN [null |-> null_for_empty /\ data = <<>>, data |-> data]

\* str(payload): how GLib prints the value.
Render(p) == IF p.type = "u" THEN <<"uint32", ToString(p.value)>> ELSE <<"string", ToString(p.value)>>

----------------------------------------------------------------------------
(* Event ids *)

HexDigits == <<"0", "1", "2", "3", "4", "5", "6", "7", "8", "9", "a", "b", "c", "d", "e", "f">>

Hex(b) == HexDigits[(b \div 16) + 1] \o HexDigits[(b % 16) + 1]

RECURSIVE HexFrom(_, _)
HexFrom(bytes, i) ==
    IF i > Len(bytes) THEN ""
    ELSE Hex(bytes[i]) \o (IF i \in {4, 6, 8, 10} THEN "-" ELSE "") \o HexFrom(bytes, i + 1)

\* A 16-byte id whose last byte is n.
IdBytes(n) == [i \in 1..16 |-> IF i = 16 THEN n ELSE 0]

\* The event ids of the wire records.
EventIds == {IdBytes(161), IdBytes(178)}

\* The rendering of each of these ids, computed once.
Rendered == [bytes \in EventIds |-> HexFrom(bytes, 1)]

\* str(UUID(bytes=b)): 32 hex digits grouped 8-4-4-4-12.
UUIDStr(bytes) == Rendered[bytes]

----------------------------------------------------------------------------
(* Results of Python calls *)

Ok(value, entries) == [raised |-> FALSE, exc |-> NoExc, value |-> value, log |-> entries]
Raise(exc, entries) == [raised |-> TRUE, exc |-> exc, value |-> None, log |-> entries]

\* r, after the log records `entries` were emitted.
After(entries, r) == [r EXCEPT !.log = entries \o r.log]

\* log.error(msg)
LogError(msg) == [level |-> "ERROR", msg |-> msg, exc_info |-> FALSE]
\* log.exception(msg): an ERROR record with the traceback of e.
LogException(msg, e) == [level |-> "ERROR", msg |-> msg \o Str(e), exc_info |-> TRUE]

----------------------------------------------------------------------------
(* The event classes *)

MetricEventColumns == {"id", "request_id", "request", "user_id"}
UnknownEventColumns == MetricEventColumns \cup {"event_id", "payload_data"}
InvalidEventColumns == UnknownEventColumns \cup {"error"}
SingularEventColumns == MetricEventColumns \cup {"occured_at"}
AggregateEventColumns == MetricEventColumns \cup {"occured_at", "count"}
SequenceEventColumns == MetricEventColumns \cup {"started_at", "stopped_at"}

\* A class: its name, its category base, whether it derives from UnknownEvent
\* (and so uses UnknownEvent._parse_payload), its __event_uuid__ and
\* __payload_type__, and its mapped attributes.
Class(name, base, unknown, uuid, payload_type, columns) ==
    [name |-> name, base |-> base, unknown |-> unknown, event_uuid |-> uuid,
     payload_type |-> payload_type, columns |-> columns]

InvalidSingularEvent ==
    Class("InvalidSingularEvent", "SingularEvent", TRUE, "None", NoPayloadType,
          SingularEventColumns \cup InvalidEventColumns)
UnknownSingularEvent ==
    Class("UnknownSingularEvent", "SingularEvent", TRUE, "None", NoPayloadType,
          SingularEventColumns \cup UnknownEventColumns)
InvalidAggregateEvent ==
    Class("InvalidAggregateEvent", "AggregateEvent", TRUE, "None", NoPayloadType,
          AggregateEventColumns \cup InvalidEventColumns)
UnknownAggregateEvent ==
    Class("UnknownAggregateEvent", "AggregateEvent", TRUE, "None", NoPayloadType,
          AggregateEventColumns \cup UnknownEventColumns)
InvalidSequence ==
    Class("InvalidSequence", "InvalidEvent", TRUE, "None", NoPayloadType, InvalidEventColumns)
UnknownSequence ==
    Class("UnknownSequence", "UnknownEvent", TRUE, "None", NoPayloadType, UnknownEventColumns)

\* The event ids of the model classes, as written in their __event_uuid__.
UUID_A1 == "00000000-0000-0000-0000-0000000000a1"
UUID_B2 == "00000000-0000-0000-0000-0000000000b2"

\* The final event models the handlers define: with and without a payload, of
\* each category, one id used in two categories and one id used by two
\* singular models.
EventModels ==
    { Class("NoPayloadSingular", "SingularEvent", FALSE, UUID_A1, NoPayloadType,
            SingularEventColumns),
      Class("UintSingular", "SingularEvent", FALSE, UUID_B2, "u",
            SingularEventColumns \cup {"value"}),
      Class("OtherUintSingular", "SingularEvent", FALSE, UUID_A1, "u",
            SingularEventColumns \cup {"value"}),
      Class("UintAggregate", "AggregateEvent", FALSE, UUID_A1, "u",
            AggregateEventColumns \cup {"value"}),
      Class("UintSequence", "SequenceEvent", FALSE, UUID_B2, "u",
            SequenceEventColumns \cup {"value"}) }

\* _get_fields_from_payload of the final event models, on a payload of the
\* declared type: the field of the payload value 1; it raises ValueError on
\* the value 0, gives a field the class does not map on the value 3, gives
\* a field named user_id beside its own on the value 4, and raises KeyError
\* on any other value.
_get_fields_from_payload(payload) ==
    IF payload.value = 1 THEN Ok([value |-> payload.value], <<>>)
    ELSE IF payload.value = 0 THEN Raise(Exc("ValueError", <<"bad value">>), <<>>)
    ELSE IF payload.value = 3 THEN Ok([unmapped |-> payload.value], <<>>)
    ELSE IF payload.value = 4
    THEN Ok([value |-> payload.value, user_id |-> UInt32(0, payload.value)], <<>>)
    ELSE Raise(Exc("KeyError", <<"missing">>), <<>>)

\* The shared text of the two ValueError messages of MetricEvent._parse_payload.
NeedsPayload(cls) == <<"Metric event", cls.event_uuid, "needs a", cls.payload_type>>

\* Rejects a payload given to a model that takes none, where the code only logs it.
MetricEvent_parse_payload_RejectsUnexpected(cls, maybe_payload) ==
    IF cls.payload_type = NoPayloadType
    THEN IF maybe_payload.just
         THEN Raise(Exc("ValueError", <<"Metric event", cls.event_uuid,
                                        "takes no payload, but got">>
                                      \o Render(maybe_payload)), <<>>)
         ELSE Ok(<<>>, <<>>)
    ELSE IF ~maybe_payload.just
    THEN Raise(Exc("ValueError", NeedsPayload(cls) \o <<"payload, but got none">>), <<>>)
    ELSE IF maybe_payload.type # cls.payload_type
    THEN Raise(Exc("ValueError", NeedsPayload(cls) \o <<"payload, but got">>
                                 \o Render(maybe_payload)
                                 \o <<"(", maybe_payload.type, ")">>), <<>>)
    ELSE _get_fields_from_payload(maybe_payload)

\* Lacks the check for an absent payload: the comparison of the types rejects it.
MetricEvent_parse_payload_NoNoneCheck(cls, maybe_payload) ==
    IF cls.payload_type = NoPayloadType
    THEN Ok(<<>>,
            IF maybe_payload.just
            THEN <<LogError(<<"Metric event", cls.event_uuid, "takes no payload, but got">>
                            \o Render(maybe_payload))>>
            ELSE <<>>)
    ELSE IF maybe_payload.type # cls.payload_type
    THEN Raise(Exc("ValueError", NeedsPayload(cls) \o <<"payload, but got">>
                                 \o Render(maybe_payload)
                                 \o <<"(", maybe_payload.type, ")">>), <<>>)
    ELSE _get_fields_from_payload(maybe_payload)

\* Lacks the comparison of the types: every payload goes to the extraction.
MetricEvent_parse_payload_NoTypeCheck(cls, maybe_payload) ==
    IF cls.payload_type = NoPayloadType
    THEN Ok(<<>>,
            IF maybe_payload.just
            THEN <<LogError(<<"Metric event", cls.event_uuid, "takes no payload, but got">>
                            \o Render(maybe_payload))>>
            ELSE <<>>)
    ELSE IF ~maybe_payload.just
    THEN Raise(Exc("ValueError", NeedsPayload(cls) \o <<"payload, but got none">>), <<>>)
    ELSE _get_fields_from_payload(maybe_payload)

\* MetricEvent._parse_payload
MetricEvent_parse_payload(cls, maybe_payload) ==
    IF cls.payload_type = NoPayloadType
    THEN Ok(<<>>,
            IF maybe_payload.just
            THEN <<LogError(<<"Metric event", cls.event_uuid, "takes no payload, but got">>
                            \o Render(maybe_payload))>>
            ELSE <<>>)
    ELSE IF ~maybe_payload.just
    THEN Raise(Exc("ValueError", NeedsPayload(cls) \o <<"payload, but got none">>), <<>>)
    ELSE IF maybe_payload.type # cls.payload_type
    THEN Raise(Exc("ValueError", NeedsPayload(cls) \o <<"payload, but got">>
                                 \o Render(maybe_payload)
                                 \o <<"(", maybe_payload.type, ")">>), <<>>)
    ELSE _get_fields_from_payload(maybe_payload)

\* Keeps the data of the unwrapped payload, where the code keeps the data of
\* the variant it was given.
UnknownEvent_parse_payload_Unwrapped(maybe_payload, null_for_empty) ==
    Ok([payload_data |->
            IF maybe_payload.vtype = "mv" /\ maybe_payload.just
            THEN ValueBytes(maybe_payload.type, maybe_payload.value)
            ELSE <<>>], <<>>)

\* UnknownEvent._parse_payload
UnknownEvent_parse_payload(maybe_payload, null_for_empty) ==
    LET as_bytes == get_data_as_bytes(maybe_payload, null_for_empty)
        payload_data == IF as_bytes.null THEN <<>> ELSE as_bytes.data
    IN Ok([payload_data |-> payload_data], <<>>)

\* The declarative constructor of azafea.model.Base: every keyword must be a
\* mapped attribute of the class.
Base__init__(cls, kwargs) ==
    IF DOMAIN kwargs \subseteq cls.columns
    THEN Ok([class |-> cls.name, attrs |-> kwargs], <<>>)
    ELSE Raise(Exc("TypeError", <<"invalid keyword argument for", cls.name>>), <<>>)

\* MetricEvent.__init__, through the _parse_payload of the class.
MetricEvent__init__(cls, payload, kwargs, null_for_empty) ==
    LET parsed == IF cls.unknown THEN UnknownEvent_parse_payload(payload, null_for_empty)
                  ELSE MetricEvent_parse_payload(cls, payload)
    IN IF parsed.raised THEN parsed
       ELSE After(parsed.log, Base__init__(cls, Update(kwargs, parsed.value)))

----------------------------------------------------------------------------
(* The dispatch functions *)

\* Refuses to go back before the time of the request.
get_event_datetime_Clamped(request_absolute, request_relative, event_relative) ==
    IF event_relative < request_relative THEN request_absolute
    ELSE request_absolute + (event_relative - request_relative)

\* utils.get_event_datetime: the absolute time of the request, moved by the
\* difference of the two relative timestamps.
get_event_datetime(request_absolute, request_relative, event_relative) ==
    request_absolute + (event_relative - request_relative)

\* new_singular_event up to the event it builds (the try statement and its
\* handlers): the object or the exception that escapes, and the log records.
singular_event(req, variant, null_for_empty) ==
    LET user_id == get_uint32(variant.user_id)
        event_id == UUIDStr(variant.event_id)
        payload == variant.payload
        event_date == get_event_datetime(req.absolute_timestamp, req.relative_timestamp,
                                         variant.relative_timestamp)
        try == IF event_id \in DOMAIN SINGULAR_EVENT_MODELS
               THEN MetricEvent__init__(SINGULAR_EVENT_MODELS[event_id], payload,
                        [request |-> req, user_id |-> user_id, occured_at |-> event_date],
                        null_for_empty)
               ELSE Raise(Exc("KeyError", <<event_id>>), <<>>)
    IN IF ~try.raised THEN try
       ELSE IF IsKeyError(try.exc)
       THEN After(try.log,
                  MetricEvent__init__(UnknownSingularEvent, payload,
                      [request |-> req, user_id |-> user_id, occured_at |-> event_date,
                       event_id |-> event_id],
                      null_for_empty))
       ELSE IF IsException(try.exc)
       THEN After(try.log \o <<LogException(<<"An error occured while processing the event:">>,
                                            try.exc)>>,
                  MetricEvent__init__(InvalidSingularEvent, payload,
                      [request |-> req, user_id |-> user_id, occured_at |-> event_date,
                       event_id |-> event_id, error |-> Str(try.exc)],
                      null_for_empty))
       ELSE try

\* new_aggregate_event up to the event it builds.
aggregate_event(req, variant, null_for_empty) ==
    LET user_id == get_uint32(variant.user_id)
        event_id == UUIDStr(variant.event_id)
        count == variant.count
        payload == variant.payload
        event_date == get_event_datetime(req.absolute_timestamp, req.relative_timestamp,
                                         variant.relative_timestamp)
        try == IF event_id \in DOMAIN AGGREGATE_EVENT_MODELS
               THEN MetricEvent__init__(AGGREGATE_EVENT_MODELS[event_id], payload,
                        [request |-> req, user_id |-> user_id, occured_at |-> event_date,
                         count |-> count],
                        null_for_empty)
               ELSE Raise(Exc("KeyError", <<event_id>>), <<>>)
    IN IF ~try.raised THEN try
       ELSE IF IsKeyError(try.exc)
       THEN After(try.log,
                  MetricEvent__init__(UnknownAggregateEvent, payload,
                      [request |-> req, user_id |-> user_id, occured_at |-> event_date,
                       count |-> count, event_id |-> event_id],
                      null_for_empty))
       ELSE IF IsException(try.exc)
       THEN After(try.log \o <<LogException(<<"An error occured while processing the aggregate:">>,
                                            try.exc)>>,
                  MetricEvent__init__(InvalidAggregateEvent, payload,
                      [request |-> req, user_id |-> user_id, occured_at |-> event_date,
                       count |-> count, event_id |-> event_id, error |-> Str(try.exc)],
                      null_for_empty))
       ELSE try

\* Lets a sequence of one child through.
TooFew_LessThanOne(num_events) == num_events < 1

\* num_events < 2
TooFew(num_events) == num_events < 2

\* Takes the last child as the start.
StartVariant_Last(children) == children[Len(children)]

\* Takes the second child as the stop.
StopVariant_Second(children) == children[2]

\* start_variant, *_progress_variants, stop_variant = get_child_values(events)
StartVariant(children) == children[1]
StopVariant(children) == children[Len(children)]

\* new_sequence_event up to the sequence it builds.
sequence_event(req, variant, null_for_empty) ==
    LET user_id == get_uint32(variant.user_id)
        event_id == UUIDStr(variant.event_id)
        events == variant.events
        num_events == Len(events.children)
    IN IF TooFew(num_events)
       THEN MetricEvent__init__(InvalidSequence, events,
                [request |-> req, user_id |-> user_id, event_id |-> event_id,
                 error |-> <<"Sequence must have at least 2 elements, but only had",
                             ToString(num_events)>>],
                null_for_empty)
       ELSE
       LET start_variant == StartVariant(events.children)
           stop_variant == StopVariant(events.children)
           payload == start_variant.payload
           started_at == get_event_datetime(req.absolute_timestamp, req.relative_timestamp,
                                            start_variant.relative_timestamp)
           stopped_at == get_event_datetime(req.absolute_timestamp, req.relative_timestamp,
                                            stop_variant.relative_timestamp)
           try == IF event_id \in DOMAIN SEQUENCE_EVENT_MODELS
                  THEN MetricEvent__init__(SEQUENCE_EVENT_MODELS[event_id], payload,
                           [request |-> req, user_id |-> user_id, started_at |-> started_at,
                            stopped_at |-> stopped_at],
                           null_for_empty)
                  ELSE Raise(Exc("KeyError", <<event_id>>), <<>>)
       IN IF ~try.raised THEN try
          ELSE IF IsKeyError(try.exc)
          THEN After(try.log,
                     MetricEvent__init__(UnknownSequence, events,
                         [request |-> req, user_id |-> user_id, event_id |-> event_id],
                         null_for_empty))
          ELSE IF IsException(try.exc)
          THEN After(try.log \o <<LogException(<<"An error occured while processing the sequence:">>,
                                               try.exc)>>,
                     MetricEvent__init__(InvalidSequence, events,
                         [request |-> req, user_id |-> user_id, event_id |-> event_id,
                          error |-> Str(try.exc)],
                         null_for_empty))
          ELSE try

----------------------------------------------------------------------------
(* The wire records *)

\* The user ids on the wire, 4 bytes each: 7 and 4294967295.
UserIds == {<<7, 0, 0, 0>>, <<255, 255, 255, 255>>}
RelativeTimestamps == {40, 175}
Counts == {-1, 3}
Payloads ==
    {Nothing, Just("u", 0), Just("u", 1), Just("u", 2), Just("u", 3), Just("u", 4),
     Just("s", 120)}
Requests == {[absolute_timestamp |-> 1000, relative_timestamp |-> 100]}

\* (uayxmv)
SingularVariants ==
    [user_id : UserIds, event_id : EventIds, relative_timestamp : RelativeTimestamps,
     payload : Payloads]

\* (uayxxmv)
AggregateVariants ==
    [user_id : {<<7, 0, 0, 0>>}, event_id : EventIds, count : Counts, relative_timestamp : {40},
     payload : Payloads \ {Just("u", 3), Just("s", 120)}]

\* The children (xmv) of a sequence: its first, its last, and those in between.
StartChildren == [relative_timestamp : {40}, payload : Payloads \ {Just("u", 3), Just("s", 120)}]
StopChildren == {[relative_timestamp |-> 175, payload |-> Nothing],
                 [relative_timestamp |-> 20, payload |-> Just("u", 1)]}
ProgressChildren == {[relative_timestamp |-> 99, payload |-> Just("s", 112)]}

RECURSIVE SeqsUpTo(_, _)
SeqsUpTo(S, n) ==
    IF n = 0 THEN {<<>>}
    ELSE LET shorter == SeqsUpTo(S, n - 1)
         IN shorter \cup {Append(q, x) : q \in shorter, x \in S}

ChildLists ==
    {<<>>} \cup {<<c>> : c \in StopChildren}
    \cup {<<a>> \o p \o <<z>> :
            a \in StartChildren, p \in SeqsUpTo(ProgressChildren, MaxProgress), z \in StopChildren}

\* (uaya(xmv))
SequenceVariants ==
    [user_id : {<<255, 255, 255, 255>>}, event_id : EventIds, events : {Array(l) : l \in ChildLists}]

NoVariant == [user_id |-> <<0, 0, 0, 0>>]

----------------------------------------------------------------------------
(* The actions *)

\* logging.DEBUG, logging.INFO, logging.WARNING, logging.ERROR
DEBUG == 10
INFO == 20
WARNING == 30
ERROR == 40

\* No record was logged since the logging system was last set up.
NoRecord == [name |-> "", levelno |-> 0, written |-> <<>>]

\* The call frame of a controller no method of which is running.
Idle == [method |-> "", at |-> "idle", i |-> 0]

\* Nothing is registered and no record was processed.
MetricsInit ==
    /\ pc = "import"
    /\ SINGULAR_EVENT_MODELS = <<>>
    /\ AGGREGATE_EVENT_MODELS = <<>>
    /\ SEQUENCE_EVENT_MODELS = <<>>
    /\ request \in Requests
    /\ event_variant = NoVariant
    /\ returned = None
    /\ raised = NoExc
    /\ dbsession = <<>>
    /\ log = <<>>
    /\ called = ""

\* Controller.__init__ with a configuration of the given number_of_workers.
Controller__init__(number_of_workers) ==
    /\ _number_of_workers = number_of_workers
    /\ _processors = <<>>
    /\ frame = Idle
    /\ calls = 0
    /\ controller_log = <<>>

\* The logging system of a process that has not set it up: no handler, the
\* root logger at WARNING.
LoggingInit ==
    /\ root = [handlers |-> <<>>, level |-> WARNING]
    /\ levels = <<>>
    /\ simplefilter = ""
    /\ setups = <<>>
    /\ last_record = NoRecord

Init ==
    /\ MetricsInit
    /\ Controller__init__(1)
    /\ LoggingInit

\* dict[key] = value
SetItem(dict, key, value) ==
    [k \in DOMAIN dict \cup {key} |-> IF k = key THEN value ELSE dict[k]]

\* Inserts a default for a key that is missing, as a defaultdict does.
AfterGetItem_Inserting(dict, key) ==
    IF key \in DOMAIN dict THEN dict
    ELSE SetItem(dict, key, Class("MetricEvent", "", FALSE, key, NoPayloadType,
                                  MetricEventColumns))

\* The mapping after the subscription dict[key] in a try statement: the
\* registries are plain dicts, which a lookup leaves as they are.
AfterGetItem(dict, key) == dict

\* Keeps one mapping for the three categories: every model is registered in all.
DefineEventModel_OneMapping(cls) ==
    /\ pc = "import"
    /\ IF cls.event_uuid # "None"
       THEN /\ SINGULAR_EVENT_MODELS' = SetItem(SINGULAR_EVENT_MODELS, cls.event_uuid, cls)
            /\ AGGREGATE_EVENT_MODELS' = SetItem(AGGREGATE_EVENT_MODELS, cls.event_uuid, cls)
            /\ SEQUENCE_EVENT_MODELS' = SetItem(SEQUENCE_EVENT_MODELS, cls.event_uuid, cls)
       ELSE UNCHANGED registries
    /\ UNCHANGED <<pc, request, event_variant, returned, raised, dbsession, log, called>>
    /\ UNCHANGED <<controller, logging>>

\* MetricMeta.__new__: the class statement of an event model registers it.
DefineEventModel(cls) ==
    /\ pc = "import"
    /\ IF cls.event_uuid # "None" /\ cls.base = "SingularEvent"
       THEN /\ SINGULAR_EVENT_MODELS' = SetItem(SINGULAR_EVENT_MODELS, cls.event_uuid, cls)
            /\ UNCHANGED <<AGGREGATE_EVENT_MODELS, SEQUENCE_EVENT_MODELS>>
       ELSE IF cls.event_uuid # "None" /\ cls.base = "AggregateEvent"
       THEN /\ AGGREGATE_EVENT_MODELS' = SetItem(AGGREGATE_EVENT_MODELS, cls.event_uuid, cls)
            /\ UNCHANGED <<SINGULAR_EVENT_MODELS, SEQUENCE_EVENT_MODELS>>
       ELSE IF cls.event_uuid # "None" /\ cls.base = "SequenceEvent"
       THEN /\ SEQUENCE_EVENT_MODELS' = SetItem(SEQUENCE_EVENT_MODELS, cls.event_uuid, cls)
            /\ UNCHANGED <<SINGULAR_EVENT_MODELS, AGGREGATE_EVENT_MODELS>>
       ELSE UNCHANGED registries
    /\ UNCHANGED <<pc, request, event_variant, returned, raised, dbsession, log, called>>
    /\ UNCHANGED <<controller, logging>>

\* The handler modules are imported: records are processed from now on.
FinishImport ==
    /\ pc = "import"
    /\ pc' = "run"
    /\ UNCHANGED <<registries, request, event_variant, returned, raised, dbsession, log, called>>
    /\ UNCHANGED <<controller, logging>>

\* Leaves an InvalidSequence out of the session.
dbsession_add_NotInvalidSequence(session, event) ==
    IF event.class = "InvalidSequence" THEN session ELSE Append(session, event)

\* dbsession.add(event): the event is pending in the session of the caller.
dbsession_add(session, event) == Append(session, event)

\* The end of a new_*_event call whose event was built as r: dbsession.add(event)
\* and return event, or the exception that escapes.
Finish(name, variant, r) ==
    /\ called' = name
    /\ event_variant' = variant
    /\ log' = log \o r.log
    /\ raised' = r.exc
    /\ returned' = r.value
    /\ dbsession' = IF r.raised THEN dbsession ELSE dbsession_add(dbsession, r.value)
    /\ UNCHANGED <<pc, request>>
    /\ UNCHANGED <<controller, logging>>

new_singular_event ==
    /\ pc = "run"
    /\ Len(dbsession) < MaxStaged
    /\ \E variant \in SingularVariants, null_for_empty \in BOOLEAN :
          /\ Finish("new_singular_event", variant,
                    singular_event(request, variant, null_for_empty))
          /\ SINGULAR_EVENT_MODELS' =
                AfterGetItem(SINGULAR_EVENT_MODELS, UUIDStr(variant.event_id))
          /\ UNCHANGED <<AGGREGATE_EVENT_MODELS, SEQUENCE_EVENT_MODELS>>

new_aggregate_event ==
    /\ pc = "run"
    /\ Len(dbsession) < MaxStaged
    /\ \E variant \in AggregateVariants, null_for_empty \in BOOLEAN :
          /\ Finish("new_aggregate_event", variant,
                    aggregate_event(request, variant, null_for_empty))
          /\ AGGREGATE_EVENT_MODELS' =
                AfterGetItem(AGGREGATE_EVENT_MODELS, UUIDStr(variant.event_id))
          /\ UNCHANGED <<SINGULAR_EVENT_MODELS, SEQUENCE_EVENT_MODELS>>

new_sequence_event ==
    /\ pc = "run"
    /\ Len(dbsession) < MaxStaged
    /\ \E variant \in SequenceVariants, null_for_empty \in BOOLEAN :
          /\ Finish("new_sequence_event", variant,
                    sequence_event(request, variant, null_for_empty))
          /\ SEQUENCE_EVENT_MODELS' =
                IF TooFew(Len(variant.events.children)) THEN SEQUENCE_EVENT_MODELS
                ELSE AfterGetItem(SEQUENCE_EVENT_MODELS, UUIDStr(variant.event_id))
          /\ UNCHANGED <<SINGULAR_EVENT_MODELS, AGGREGATE_EVENT_MODELS>>

\* The owner of the session commits it and is done with the records it was
\* given: nothing is pending any more.
Commit ==
    /\ pc = "run"
    /\ dbsession # <<>>
    /\ dbsession' = <<>>
    /\ event_variant' = NoVariant
    /\ returned' = None
    /\ raised' = NoExc
    /\ log' = <<>>
    /\ called' = ""
    /\ UNCHANGED <<pc, registries, request>>
    /\ UNCHANGED <<controller, logging>>

Next ==
    \/ \E cls \in EventModels : DefineEventModel(cls)
    \/ FinishImport
    \/ new_singular_event
    \/ new_aggregate_event
    \/ new_sequence_event
    \/ Commit

Spec == Init /\ [][Next]_vars

----------------------------------------------------------------------------
(* The controller *)

\* Processor(f'worker-{i}') after proc.start(): a process that runs.
Processor(i) == [name |-> "worker-" \o ToString(i), state |-> "started"]

\* log.info('Starting the controller with %s worker%s', ...)
Starting(number_of_workers) ==
    <<"Starting the controller with", ToString(number_of_workers),
      IF number_of_workers > 1 THEN "workers" ELSE "worker">>

\* Controller.start is called.
start ==
    /\ frame = Idle
    /\ calls < MaxCalls
    /\ calls' = calls + 1
    /\ frame' = [method |-> "start", at |-> "start", i |-> 1]
    /\ controller_log' = Append(controller_log, Starting(_number_of_workers))
    /\ UNCHANGED <<_number_of_workers, _processors, metrics, logging>>

\* Controller.main is called: it calls self.start().
main ==
    /\ frame = Idle
    /\ calls < MaxCalls
    /\ calls' = calls + 1
    /\ frame' = [method |-> "main", at |-> "start", i |-> 1]
    /\ controller_log' = Append(controller_log, Starting(_number_of_workers))
    /\ UNCHANGED <<_number_of_workers, _processors, metrics, logging>>

\* One turn of the loop of start: for i in range(1, self._number_of_workers + 1).
start_loop ==
    /\ frame.at = "start"
    /\ frame.i <= _number_of_workers
    /\ _processors' = Append(_processors, Processor(frame.i))
    /\ frame' = [frame EXCEPT !.i = frame.i + 1]
    /\ UNCHANGED <<_number_of_workers, calls, controller_log, metrics, logging>>

\* The loop of start is over: start returns, to its caller or into main, which
\* goes on with for proc in self._processors.
start_return ==
    /\ frame.at = "start"
    /\ frame.i > _number_of_workers
    /\ frame' = IF frame.method = "main" THEN [frame EXCEPT !.at = "join", !.i = 1] ELSE Idle
    /\ UNCHANGED <<_number_of_workers, _processors, calls, controller_log, metrics, logging>>

\* Returns at once, whether or not the process has ended.
join_NoWait ==
    /\ frame.at = "join"
    /\ frame.i <= Len(_processors)
    /\ frame' = [frame EXCEPT !.i = frame.i + 1]
    /\ UNCHANGED <<_number_of_workers, _processors, calls, controller_log, metrics, logging>>

\* proc.join() returns: the process has ended.
join ==
    /\ frame.at = "join"
    /\ frame.i <= Len(_processors)
    /\ _processors[frame.i].state = "stopped"
    /\ frame' = [frame EXCEPT !.i = frame.i + 1]
    /\ UNCHANGED <<_number_of_workers, _processors, calls, controller_log, metrics, logging>>

\* The loop of main is over: log.info('All workers finished, exiting').
main_return ==
    /\ frame.at = "join"
    /\ frame.i > Len(_processors)
    /\ controller_log' = Append(controller_log, <<"All workers finished, exiting">>)
    /\ frame' = Idle
    /\ UNCHANGED <<_number_of_workers, _processors, calls, metrics, logging>>

\* The run method of a worker process ends.
ProcessorExits(k) ==
    /\ _processors[k].state = "started"
    /\ _processors' = [_processors EXCEPT ![k].state = "stopped"]
    /\ UNCHANGED <<_number_of_workers, frame, calls, controller_log, metrics, logging>>

ControllerInit ==
    /\ MetricsInit
    /\ \E number_of_workers \in 1..MaxWorkers : Controller__init__(number_of_workers)
    /\ LoggingInit

ControllerNext ==
    \/ start
    \/ main
    \/ start_loop
    \/ start_return
    \/ join
    \/ main_return
    \/ \E k \in DOMAIN _processors : ProcessorExits(k)

SpecController == ControllerInit /\ [][ControllerNext]_vars

\* The thread that called start or main goes on: a statement of a method that
\* can run does run. Nothing makes a worker end, nor the caller call again.
SpecControllerFair ==
    /\ SpecController
    /\ WF_vars(start_loop)
    /\ WF_vars(start_return)
    /\ WF_vars(join)
    /\ WF_vars(main_return)

----------------------------------------------------------------------------
(* The logging setup *)

\* StdoutFilter.filter
StdoutFilter_filter(levelno) == levelno <= INFO

\* The two handlers setup_logging creates.
out == [stream |-> "stdout", level |-> DEBUG, filters |-> <<"StdoutFilter">>]
err == [stream |-> "stderr", level |-> WARNING, filters |-> <<>>]

\* A handler another party installed on the root logger before setup_logging
\* is called, as pytest does to capture the logs.
CaptureHandler == [stream |-> "capture", level |-> 0, filters |-> <<>>]

\* Leaves the handlers of the root logger in place.
_reset_logging_Nothing(logger) == logger

\* _reset_logging: every handler of the root logger is closed and removed.
_reset_logging(logger) == [logger EXCEPT !.handlers = <<>>]

\* logging.basicConfig(level=level, handlers=handlers, ...): it does nothing
\* when the root logger has handlers already.
basicConfig(logger, level, handlers) ==
    IF logger.handlers = <<>> THEN [handlers |-> handlers, level |-> level] ELSE logger

\* logging.getLogger(name).setLevel(level)
setLevel(name, level, current) == SetItem(current, name, level)

\* setup_logging(verbose=verbose)
setup_logging(verbose) ==
    /\ Len(setups) < MaxSetups
    /\ LET level == IF verbose THEN DEBUG ELSE INFO
       IN root' = basicConfig(_reset_logging(root), level, <<out, err>>)
    /\ simplefilter' = IF verbose THEN "default" ELSE simplefilter
    /\ levels' = IF verbose
                 THEN setLevel("flake8", WARNING,
                          setLevel("filelock", WARNING,
                              setLevel("sqlalchemy", DEBUG, levels)))
                 ELSE levels
    /\ setups' = Append(setups, verbose)
    /\ last_record' = NoRecord
    /\ UNCHANGED <<metrics, controller>>

\* Logger.getEffectiveLevel: the level of the logger, or that of the root
\* logger for a logger that has none.
getEffectiveLevel(name) == IF name \in DOMAIN levels THEN levels[name] ELSE root.level

\* Handler.handle: the handler writes the records of its level or above that
\* its filters let through.
Handles(handler, levelno) ==
    /\ levelno >= handler.level
    /\ \A i \in DOMAIN handler.filters :
          handler.filters[i] = "StdoutFilter" => StdoutFilter_filter(levelno)

\* Logger.callHandlers: the streams the record is written to, in the order of
\* the handlers of the root logger; without any handler, logging.lastResort
\* writes the records of level WARNING or above to stderr.
callHandlers(levelno) ==
    IF root.handlers = <<>>
    THEN IF levelno >= WARNING THEN <<"stderr">> ELSE <<>>
    ELSE LET Test(handler) == Handles(handler, levelno)
             handling == SelectSeq(root.handlers, Test)
         IN [i \in DOMAIN handling |-> handling[i].stream]

\* The loggers that log: one of the program, and those setup_logging names.
LoggerNames == {"azafea", "sqlalchemy", "filelock", "flake8"}

\* The levels of the records: the standard ones and one between INFO and WARNING.
RecordLevels == {DEBUG, INFO, INFO + 5, WARNING, ERROR}

\* logging.getLogger(name).log(levelno, ...)
Logger_log(name, levelno) ==
    /\ last_record' =
          [name |-> name, levelno |-> levelno,
           written |-> IF levelno >= getEffectiveLevel(name) THEN callHandlers(levelno)
                       ELSE <<>>]
    /\ UNCHANGED <<root, levels, simplefilter, setups, metrics, controller>>

\* A process in which nothing, or a handler of another party, is installed.
LoggingStart ==
    /\ MetricsInit
    /\ Controller__init__(1)
    /\ root \in {[handlers |-> h, level |-> WARNING] : h \in {<<>>, <<CaptureHandler>>}}
    /\ levels = <<>>
    /\ simplefilter = ""
    /\ setups = <<>>
    /\ last_record = NoRecord

LoggingNext ==
    \/ \E verbose \in BOOLEAN : setup_logging(verbose)
    \/ \E name \in LoggerNames, levelno \in RecordLevels : Logger_log(name, levelno)

SpecLogging == LoggingStart /\ [][LoggingNext]_vars

----------------------------------------------------------------------------
(* What the properties speak of: the last call, its record and its result *)

\* The registry the called function looks the id up in.
CalledRegistry ==
    IF called = "new_singular_event" THEN SINGULAR_EVENT_MODELS
    ELSE IF called = "new_aggregate_event" THEN AGGREGATE_EVENT_MODELS
    ELSE SEQUENCE_EVENT_MODELS

\* The event type id of the record, as text.
WireId == IF event_variant.event_id[16] = 161 THEN UUID_A1 ELSE UUID_B2

Registered == WireId \in DOMAIN CalledRegistry

IsSequence == called = "new_sequence_event"

\* A sequence record with fewer than 2 children.
Short == IsSequence /\ Len(event_variant.events.children) < 2

\* The payload of the record: that of the event, or of the first child.
WirePayload ==
    IF IsSequence THEN event_variant.events.children[1].payload ELSE event_variant.payload

\* The outcome class of the returned object.
Outcome ==
    IF returned = None THEN "None"
    ELSE IF returned.class \in {"UnknownSingularEvent", "UnknownAggregateEvent", "UnknownSequence"}
    THEN "Unknown"
    ELSE IF returned.class \in {"InvalidSingularEvent", "InvalidAggregateEvent", "InvalidSequence"}
    THEN "Invalid"
    ELSE "Known"

\* The text contains the piece.
Contains(text, piece) == \E i \in DOMAIN text : text[i] = piece

\* The text contains every piece of the message.
ContainsAll(text, message) == \A i \in DOMAIN message : Contains(text, message[i])

\* The registered model of the record's id.
Model == CalledRegistry[WireId]

\* Decoding the payload of the record with the registered model.
Decoded == MetricEvent__init__(Model, WirePayload, <<>>, FALSE)

\* The encoded payload of the record: the maybe-payload of an event, the array
\* of children of a sequence.
RawPayload ==
    IF IsSequence THEN get_array_data(event_variant.events.children)
    ELSE get_data(event_variant.payload)

----------------------------------------------------------------------------
(* Properties *)

\* C1: every call of new_singular_event, new_aggregate_event or
\* new_sequence_event returns one event object and lets no exception escape,
\* whatever the registries hold and whatever the extraction function does.
C1_Totality ==
    called # "" =>
        /\ raised = NoExc
        /\ Outcome \in {"Known", "Unknown", "Invalid"}

\* A registered model whose extraction gave a field the class does not map.
C1_Witness ==
    /\ called = "new_singular_event"
    /\ Registered
    /\ CalledRegistry[WireId].payload_type = "u"
    /\ event_variant.payload = Just("u", 3)
    /\ raised = NoExc
    /\ Outcome = "Invalid"

\* C2: the outcome follows from the registry lookup and the decoding alone: a
\* record is Unknown exactly when its id is not registered for its category,
\* Known exactly when it is registered and decoding succeeds, Invalid exactly
\* when it is registered and decoding fails or the sequence has fewer than 2
\* children; a failure while decoding never gives an Unknown record.
C2_OutcomeByLookupAndDecoding ==
    called # "" =>
        /\ (Outcome = "Unknown") <=> (~Short /\ ~Registered)
        /\ (Outcome = "Known") <=> (~Short /\ Registered /\ ~Decoded.raised)
        /\ (Outcome = "Invalid") <=> (Short \/ (Registered /\ Decoded.raised))

\* C3, as claimed: a record whose id is not registered gives an Unknown
\* object that keeps the encoded payload and the id of the record.
C3_UnregisteredIsUnknown ==
    (called # "" /\ ~Registered) =>
        /\ Outcome = "Unknown"
        /\ returned.attrs.payload_data = RawPayload
        /\ returned.attrs.event_id = WireId

\* C3, amended: a record whose id is not registered, other than a sequence
\* with fewer than 2 children, gives an Unknown object whose payload_data is
\* the encoded payload of the record (empty for an absent payload) and whose
\* event_id is the id of the record.
C3_UnregisteredIsUnknownUnlessShort ==
    (called # "" /\ ~Registered /\ ~Short) =>
        /\ Outcome = "Unknown"
        /\ returned.attrs.payload_data = RawPayload
        /\ returned.attrs.event_id = WireId

\* An unregistered id with a payload present.
C3_Witness ==
    /\ called = "new_singular_event"
    /\ ~Registered
    /\ event_variant.payload = Just("s", 120)
    /\ Outcome = "Unknown"
    /\ returned.attrs.payload_data = <<120, 0, 0, 115, 0>>

\* C4: when the model of the record's id is registered and its extraction
\* function raises on the payload, the object is Invalid, its error holds the
\* raised message and its payload_data the encoded payload.
C4_ExtractionFailureIsInvalid ==
    (/\ called # ""
     /\ ~Short
     /\ Registered
     /\ Model.payload_type # NoPayloadType
     /\ WirePayload.just
     /\ WirePayload.type = Model.payload_type
     /\ _get_fields_from_payload(WirePayload).raised) =>
        /\ Outcome = "Invalid"
        /\ ContainsAll(returned.attrs.error, _get_fields_from_payload(WirePayload).exc.args)
        /\ returned.attrs.payload_data = RawPayload

\* The attributes the dispatch functions give a Known object of the category.
DispatchAttrs ==
    IF called = "new_singular_event" THEN {"request", "user_id", "occured_at"}
    ELSE IF called = "new_aggregate_event" THEN {"request", "user_id", "occured_at", "count"}
    ELSE {"request", "user_id", "started_at", "stopped_at"}

\* C5: a registered model that declares no payload type decodes to no field
\* whether or not a payload is present: the object is Known (an instance of
\* the model) and holds nothing of the payload.
C5_NoPayloadModelIsKnown ==
    (called # "" /\ ~Short /\ Registered /\ Model.payload_type = NoPayloadType) =>
        /\ Outcome = "Known"
        /\ returned.class = Model.name
        /\ DOMAIN returned.attrs = DispatchAttrs

\* A model without payload type was given a payload.
C5_Witness ==
    /\ called = "new_singular_event"
    /\ Registered
    /\ Model.payload_type = NoPayloadType
    /\ event_variant.payload = Just("u", 0)
    /\ Outcome = "Known"

\* C6: a registered model that declares a payload type, given a record without
\* payload, fails with the missing-payload error (not with the error of the
\* comparison of the types, nor of the extraction) and the object is Invalid.
C6_MissingPayloadIsInvalid ==
    (called # "" /\ ~Short /\ Registered /\ Model.payload_type # NoPayloadType
     /\ ~WirePayload.just) =>
        /\ Outcome = "Invalid"
        /\ returned.attrs.error =
              <<"Metric event", WireId, "needs a", Model.payload_type, "payload, but got none">>

\* A sequence whose first child has no payload, for a model that needs one.
C6_Witness ==
    /\ called = "new_sequence_event"
    /\ ~Short
    /\ Registered
    /\ Model.payload_type = "u"
    /\ ~WirePayload.just
    /\ Outcome = "Invalid"

\* What the object shows when the extraction function ran on the payload: its
\* fields, or its exception (a KeyError as an Unknown object), or the
\* refusal of a field the class does not map.
ExtractionShows ==
    LET x == _get_fields_from_payload(WirePayload)
    IN IF x.raised
       THEN IF x.exc.type = "KeyError" THEN Outcome = "Unknown"
            ELSE Outcome = "Invalid" /\ returned.attrs.error = Str(x.exc)
       ELSE IF DOMAIN x.value \subseteq Model.columns
       THEN Outcome = "Known" /\ \A k \in DOMAIN x.value : returned.attrs[k] = x.value[k]
       ELSE Outcome = "Invalid" /\ Contains(returned.attrs.error, "invalid keyword argument for")

\* C7: for a registered model with a payload type and a record with a
\* payload, the extraction function runs exactly when the type of the payload
\* is the declared one; otherwise the object is Invalid and its error names
\* the expected and the actual type.
C7_ExtractionIffTypeMatches ==
    (called # "" /\ ~Short /\ Registered /\ Model.payload_type # NoPayloadType
     /\ WirePayload.just) =>
        IF WirePayload.type = Model.payload_type
        THEN ExtractionShows
        ELSE /\ Outcome = "Invalid"
             /\ returned.attrs.error =
                   <<"Metric event", WireId, "needs a", Model.payload_type, "payload, but got">>
                   \o Render(WirePayload) \o <<"(", WirePayload.type, ")">>
             /\ Contains(returned.attrs.error, Model.payload_type)
             /\ Contains(returned.attrs.error, WirePayload.type)

\* A string payload for a model that declares a uint32.
C7_Witness ==
    /\ called = "new_singular_event"
    /\ Registered
    /\ Model.payload_type = "u"
    /\ event_variant.payload = Just("s", 120)
    /\ Outcome = "Invalid"

\* C8: a sequence with 0 or 1 children gives an InvalidSequence whose
\* payload_data is the encoded list of children and whose error tells the
\* minimum and the count, whether or not the id is registered.
C8_ShortSequenceIsInvalid ==
    Short =>
        /\ returned.class = "InvalidSequence"
        /\ returned.attrs.payload_data = get_array_data(event_variant.events.children)
        /\ returned.attrs.error =
              <<"Sequence must have at least 2 elements, but only had",
                IF event_variant.events.children = <<>> THEN "0" ELSE "1">>
        /\ returned.attrs.event_id = WireId

\* A sequence of one child whose id is not registered.
C8_Witness ==
    /\ Short
    /\ Len(event_variant.events.children) = 1
    /\ ~Registered
    /\ Outcome = "Invalid"

\* Progress lists to compare with: those of the records and others.
OtherProgressLists ==
    SeqsUpTo(ProgressChildren \cup {[relative_timestamp |-> 7, payload |-> Just("u", 0)]}, 2)

\* The record with its progress children replaced.
WithProgress(variant, progress) ==
    LET children == variant.events.children
    IN [variant EXCEPT !.events =
            Array(<<children[1]>> \o progress \o <<children[Len(children)]>>)]

\* What new_sequence_event builds for the record with other progress children.
WithOtherProgress(progress) ==
    sequence_event(request, WithProgress(event_variant, progress), FALSE).value

\* C9, as claimed: the object built for a sequence of 2 or more children does
\* not depend on the progress children, whatever the outcome.
C9_ProgressNowhere ==
    (IsSequence /\ ~Short) =>
        \A progress \in OtherProgressLists : WithOtherProgress(progress) = returned

\* C9, amended: a Known object does not depend on the progress children; an
\* Unknown or Invalid object depends on them only through payload_data, which
\* is the encoded list of all the children.
C9_ProgressOnlyInPayloadData ==
    (IsSequence /\ ~Short) =>
        /\ Outcome = "Known" =>
              \A progress \in OtherProgressLists : WithOtherProgress(progress) = returned
        /\ Outcome # "Known" =>
              /\ returned.attrs.payload_data = get_array_data(event_variant.events.children)
              /\ \A progress \in OtherProgressLists :
                    LET other == WithOtherProgress(progress)
                    IN /\ other.class = returned.class
                       /\ DOMAIN other.attrs = DOMAIN returned.attrs
                       /\ \A k \in DOMAIN returned.attrs \ {"payload_data"} :
                             other.attrs[k] = returned.attrs[k]

\* A Known sequence with a progress child.
C9_Witness ==
    /\ IsSequence
    /\ Len(event_variant.events.children) = 3
    /\ Outcome = "Known"

\* C10: for a sequence of n >= 2 children, the payload that is decoded is that
\* of the first child alone, and the Known object has started_at reconciled
\* from the timestamp of the first child and stopped_at from that of the last.
C10_StartIsFirstStopIsLast ==
    (IsSequence /\ ~Short /\ Registered) =>
        LET children == event_variant.events.children
            first == children[1]
            last == children[Len(children)]
            decoded == MetricEvent__init__(Model, first.payload, <<>>, FALSE)
        IN /\ (Outcome = "Known") <=> ~decoded.raised
           /\ Outcome = "Known" =>
                 /\ returned.attrs.started_at =
                       get_event_datetime(request.absolute_timestamp,
                                          request.relative_timestamp, first.relative_timestamp)
                 /\ returned.attrs.stopped_at =
                       get_event_datetime(request.absolute_timestamp,
                                          request.relative_timestamp, last.relative_timestamp)
                 /\ \A k \in DOMAIN decoded.value.attrs :
                       returned.attrs[k] = decoded.value.attrs[k]
           /\ (decoded.raised /\ ~IsKeyError(decoded.exc)) =>
                 returned.attrs.error = Str(decoded.exc)

\* A Known sequence of exactly 2 children: the first is the start, the second the stop.
C10_Witness ==
    /\ IsSequence
    /\ Len(event_variant.events.children) = 2
    /\ Outcome = "Known"
    /\ event_variant.events.children[2].relative_timestamp = 175
    /\ returned.attrs.started_at = 940
    /\ returned.attrs.stopped_at = 1075

\* The record of the last call with the timestamp of the request as its own
\* timestamps: a delta of zero.
AtRequestTime ==
    IF IsSequence
    THEN [event_variant EXCEPT !.events =
            Array([i \in DOMAIN event_variant.events.children |->
                     [event_variant.events.children[i]
                        EXCEPT !.relative_timestamp = request.relative_timestamp]])]
    ELSE [event_variant EXCEPT !.relative_timestamp = request.relative_timestamp]

\* The class of the object the called function builds for a record.
ClassFor(variant) ==
    IF called = "new_singular_event" THEN singular_event(request, variant, FALSE).value.class
    ELSE IF called = "new_aggregate_event" THEN aggregate_event(request, variant, FALSE).value.class
    ELSE sequence_event(request, variant, FALSE).value.class

\* The timestamps the time attributes of the last call are computed from.
RelativeOf(attr) ==
    IF attr = "occured_at" THEN event_variant.relative_timestamp
    ELSE IF attr = "started_at" THEN event_variant.events.children[1].relative_timestamp
    ELSE event_variant.events.children[Len(event_variant.events.children)].relative_timestamp

\* C11: every time attribute of an object is the absolute time of the request
\* plus the signed difference of the timestamp of the event and that of the
\* request, in the three categories and for a negative difference too, and
\* the class of the object is the one a difference of zero gives: no
\* timestamp makes an object Invalid.
C11_SignedDeltaEverywhere ==
    /\ \A A \in {0, 1000}, R \in {100, 5000} :
          /\ get_event_datetime(A, R, R) = A
          /\ get_event_datetime(A, R, R - 100) = A - 100
          /\ get_event_datetime(A, R, R + 50) = A + 50
    /\ called # "" =>
          /\ \A attr \in DOMAIN returned.attrs \cap {"occured_at", "started_at", "stopped_at"} :
                returned.attrs[attr] =
                    request.absolute_timestamp + (RelativeOf(attr) - request.relative_timestamp)
          /\ Outcome = "Known" => DispatchAttrs \subseteq DOMAIN returned.attrs
          /\ returned.class = ClassFor(AtRequestTime)

\* A Known aggregate whose event is 60 units before the request.
C11_Witness ==
    /\ called = "new_aggregate_event"
    /\ Outcome = "Known"
    /\ event_variant.relative_timestamp < request.relative_timestamp
    /\ returned.attrs.occured_at = 940

\* The mapping keeps what it held: no key of before has another value after.
Kept(before, after) ==
    \A id \in DOMAIN before : id \in DOMAIN after /\ after[id] = before[id]

\* C12: the definition of a model whose id is already registered, under any
\* category, is refused and leaves the earlier registration in place: no step
\* replaces the model registered for an id, and no id is registered in two
\* mappings.
C12_DuplicateRegistrationRefused ==
    [][/\ Kept(SINGULAR_EVENT_MODELS, SINGULAR_EVENT_MODELS')
       /\ Kept(AGGREGATE_EVENT_MODELS, AGGREGATE_EVENT_MODELS')
       /\ Kept(SEQUENCE_EVENT_MODELS, SEQUENCE_EVENT_MODELS')
       /\ DOMAIN SINGULAR_EVENT_MODELS' \cap DOMAIN AGGREGATE_EVENT_MODELS' = {}
       /\ DOMAIN SINGULAR_EVENT_MODELS' \cap DOMAIN SEQUENCE_EVENT_MODELS' = {}
       /\ DOMAIN AGGREGATE_EVENT_MODELS' \cap DOMAIN SEQUENCE_EVENT_MODELS' = {}]_vars

\* C13: once the handlers are imported, no step changes the three registries:
\* a call of new_singular_event, new_aggregate_event or new_sequence_event
\* only reads them, whatever its outcome.
C13_RegistriesFrozenAfterImport ==
    [][pc = "run" => UNCHANGED registries]_vars

\* A call that looked up an id the registry of its category does not hold,
\* while the registries hold models.
C13_Witness ==
    /\ pc = "run"
    /\ called = "new_aggregate_event"
    /\ ~Registered
    /\ Outcome = "Unknown"
    /\ DOMAIN AGGREGATE_EVENT_MODELS = {UUID_A1}
    /\ DOMAIN SINGULAR_EVENT_MODELS = {UUID_A1, UUID_B2}

\* The base class of the models of the category of the last call.
CategoryBase ==
    IF called = "new_singular_event" THEN "SingularEvent"
    ELSE IF called = "new_aggregate_event" THEN "AggregateEvent"
    ELSE "SequenceEvent"

\* The ids registered in the mappings of the other categories.
RegisteredElsewhere ==
    IF called = "new_singular_event"
    THEN DOMAIN AGGREGATE_EVENT_MODELS \cup DOMAIN SEQUENCE_EVENT_MODELS
    ELSE IF called = "new_aggregate_event"
    THEN DOMAIN SINGULAR_EVENT_MODELS \cup DOMAIN SEQUENCE_EVENT_MODELS
    ELSE DOMAIN SINGULAR_EVENT_MODELS \cup DOMAIN AGGREGATE_EVENT_MODELS

\* C14: a record is looked up in the mapping of its own category only: an id
\* registered only in the mappings of other categories gives an Unknown
\* object, and a Known object is an instance of the model its own category
\* holds for the id, a model of that category.
C14_LookupInOwnCategory ==
    (called # "" /\ ~Short) =>
        /\ (~Registered /\ WireId \in RegisteredElsewhere) =>
              /\ Outcome = "Unknown"
              /\ returned.attrs.event_id = WireId
        /\ Outcome = "Known" =>
              /\ Registered
              /\ returned.class = Model.name
              /\ Model.base = CategoryBase

\* A singular record whose id only an aggregate model has.
C14_Witness ==
    /\ called = "new_singular_event"
    /\ WireId = UUID_A1
    /\ DOMAIN SINGULAR_EVENT_MODELS = {UUID_B2}
    /\ DOMAIN AGGREGATE_EVENT_MODELS = {UUID_A1}
    /\ Outcome = "Unknown"

\* C15: every call of new_singular_event, new_aggregate_event or
\* new_sequence_event returns an object and leaves the session with exactly
\* that object added to what was pending before: one add on every path, and
\* nothing committed or rolled back.
C15_OneAddPerCall ==
    [][called' # "" =>
          /\ returned' # None
          /\ raised' = NoExc
          /\ dbsession' = Append(dbsession, returned')]_vars

\* The path of too few children: the InvalidSequence returned is the one
\* object pending in the session.
C15_Witness ==
    /\ Short
    /\ Outcome = "Invalid"
    /\ dbsession = <<returned>>

\* C16, as claimed: the object of every outcome has the attributes of its
\* category, the Unknown and Invalid objects of a sequence of 2 or more
\* children too.
C16_CategoryFieldsAlways ==
    (called # "" /\ ~Short) => DispatchAttrs \subseteq DOMAIN returned.attrs

\* C16, amended: singular and aggregate objects of every outcome, and Known
\* sequences, have the attributes of their category; an UnknownSequence or
\* InvalidSequence has neither started_at nor stopped_at, and holds the
\* encoded children, timestamps included, in payload_data.
C16_CategoryFieldsButUnknownSequences ==
    called # "" =>
        IF IsSequence /\ Outcome # "Known"
        THEN /\ DOMAIN returned.attrs \cap {"started_at", "stopped_at"} = {}
             /\ returned.attrs.payload_data = get_array_data(event_variant.events.children)
        ELSE DispatchAttrs \subseteq DOMAIN returned.attrs

\* An UnknownSequence of 2 children or more.
C16_Witness ==
    /\ IsSequence
    /\ ~Short
    /\ returned.class = "UnknownSequence"
    /\ "started_at" \notin DOMAIN returned.attrs

\* The user id of the record of the last call, read from its 4 bytes.
WireUserId ==
    LET b == event_variant.user_id
    IN UInt32(b[4] * 256 + b[3], b[2] * 256 + b[1])

\* C17: the user_id of the object of every outcome is the uint32 of the
\* record, unchanged and not negative (4294967295 stays 4294967295), and the
\* count of an aggregate object is the count of the record, whatever the
\* payload.
C17_UserIdAndCountVerbatim ==
    called # "" =>
        /\ returned.attrs.user_id = WireUserId
        /\ returned.attrs.user_id.hi \in 0..65535
        /\ returned.attrs.user_id.lo \in 0..65535
        /\ event_variant.user_id = <<255, 255, 255, 255>> =>
              returned.attrs.user_id = UInt32(65535, 65535)
        /\ called = "new_aggregate_event" => returned.attrs.count = event_variant.count

\* The keyword arguments the called function gives the model, computed from
\* the record and the request.
AsDispatched ==
    LET req == request
        user_id == WireUserId
        at(relative) == req.absolute_timestamp + (relative - req.relative_timestamp)
        children == event_variant.events.children
    IN IF called = "new_singular_event"
       THEN [request |-> req, user_id |-> user_id,
             occured_at |-> at(event_variant.relative_timestamp)]
       ELSE IF called = "new_aggregate_event"
       THEN [request |-> req, user_id |-> user_id,
             occured_at |-> at(event_variant.relative_timestamp),
             count |-> event_variant.count]
       ELSE [request |-> req, user_id |-> user_id,
             started_at |-> at(children[1].relative_timestamp),
             stopped_at |-> at(children[Len(children)].relative_timestamp)]

\* C20: in a Known object, request, user_id, occured_at, count, started_at
\* and stopped_at have the values the called function computed from the
\* record and the request, whatever fields the extraction function of the
\* model returned.
C20_DispatcherFieldsKept ==
    Outcome = "Known" =>
        \A k \in DOMAIN AsDispatched : returned.attrs[k] = AsDispatched[k]

\* C18: a call that returns an Invalid object, the InvalidSequence of fewer
\* than 2 children included, logs at least one record, and a call that
\* returns an Unknown object logs no record of level ERROR.
C18_InvalidLogsUnknownDoesNot ==
    [][called' # "" =>
          LET logged == SubSeq(log', Len(log) + 1, Len(log'))
          IN /\ Outcome' = "Invalid" => logged # <<>>
             /\ Outcome' = "Unknown" => \A i \in DOMAIN logged : logged[i].level # "ERROR"]_vars

\* C19: a controller holds and has started exactly number_of_workers
\* processors, named worker-1 to worker-N, once start or main has run, and
\* never holds more than number_of_workers, whatever calls of start and main
\* were made.
C19_PoolSizeFixed ==
    /\ Len(_processors) <= _number_of_workers
    /\ \A i, j \in DOMAIN _processors :
          i # j => _processors[i].name # _processors[j].name
    /\ (calls > 0 /\ frame.at # "start") =>
          /\ Len(_processors) = _number_of_workers
          /\ \A i \in DOMAIN _processors : _processors[i].name = "worker-" \o ToString(i)

\* Every processor the controller holds has ended.
AllStopped == \A k \in DOMAIN _processors : _processors[k].state = "stopped"

\* C21: main joins no processor before start has started them all; main ends
\* (logging 'All workers finished, exiting') only when every processor the
\* controller started has ended, so it never returns while one runs on; and
\* if all workers end, a main that was called returns.
C21_MainJoinsAfterStartAndReturnsAfterAll ==
    /\ [](frame.at = "join" =>
            /\ frame.method = "main"
            /\ Len(_processors) = _number_of_workers * calls
            /\ \A k \in 1..(frame.i - 1) : _processors[k].state = "stopped")
    /\ [][(frame.method = "main" /\ frame'.method # "main") =>
            /\ AllStopped
            /\ UNCHANGED _processors
            /\ controller_log' = Append(controller_log, <<"All workers finished, exiting">>)]_vars
    /\ (<>[]AllStopped) => ((frame.method = "main") ~> (frame = Idle))

\* main has returned after its two workers ended.
C21_Witness ==
    /\ frame = Idle
    /\ calls = 1
    /\ Len(_processors) = 2
    /\ AllStopped
    /\ controller_log[Len(controller_log)] = <<"All workers finished, exiting">>

\* The level the last setup_logging call configured: DEBUG when verbose, INFO
\* otherwise.
ConfiguredLevel == IF setups[Len(setups)] THEN DEBUG ELSE INFO

\* Some setup_logging call, the last or an earlier one, was verbose.
WasVerbose == \E i \in DOMAIN setups : setups[i]

\* The one stream of a level: stdout up to INFO, stderr from WARNING.
StreamOf(levelno) == IF levelno <= INFO THEN <<"stdout">> ELSE <<"stderr">>

\* C22, as claimed: after any number of setup_logging calls the root logger
\* has exactly two handlers, and every record logged at the configured level
\* or above is written once to one stream: stdout when its level is INFO or
\* below, stderr when it is WARNING or above.
C22_EveryRecordToOneStream ==
    setups # <<>> =>
        /\ Len(root.handlers) = 2
        /\ (last_record # NoRecord /\ last_record.levelno >= ConfiguredLevel) =>
              /\ Len(last_record.written) = 1
              /\ last_record.levelno <= INFO => last_record.written = <<"stdout">>
              /\ last_record.levelno >= WARNING => last_record.written = <<"stderr">>

\* The level a record of the logger must reach to be written: that of the
\* last call, but the own level of a logger that a verbose call gave one.
Threshold(name) ==
    IF WasVerbose /\ name \in {"filelock", "flake8"} THEN WARNING
    ELSE IF WasVerbose /\ name = "sqlalchemy" THEN DEBUG
    ELSE ConfiguredLevel

\* C22, amended: after any number of setup_logging calls the root logger has
\* exactly two handlers and the level of the last call, and no record is
\* written twice: a record below the level its logger requires, or of a level
\* between INFO and WARNING, is written nowhere, and any other is written
\* once, to stdout up to INFO and to stderr from WARNING. The level required
\* is the configured one, but WARNING for filelock and flake8 and DEBUG for
\* sqlalchemy once any call was verbose.
C22_OneStreamAtMostByLoggerLevel ==
    setups # <<>> =>
        /\ Len(root.handlers) = 2
        /\ root.level = ConfiguredLevel
        /\ last_record # NoRecord =>
              last_record.written =
                  IF last_record.levelno < Threshold(last_record.name) THEN <<>>
                  ELSE IF INFO < last_record.levelno /\ last_record.levelno < WARNING THEN <<>>
                  ELSE StreamOf(last_record.levelno)

\* After a verbose call and then one that is not, in a process where another
\* handler was installed, a WARNING of filelock is written to stderr alone.
C22_Witness ==
    /\ setups = <<TRUE, FALSE>>
    /\ last_record = [name |-> "filelock", levelno |-> WARNING, written |-> <<"stderr">>]
    /\ root.handlers = <<out, err>>

====
